---------------------------- MODULE Spec2Model ----------------------------
(***************************************************************************)
(* convertLaTeXToHTML of src/src/components/LaTeXDocument.tsx as a state   *)
(* machine: one action per commented block of the function, each applying  *)
(* that block's String.replace calls in source order.                      *)
(*                                                                         *)
(* A JavaScript string is a sequence of symbols.  A symbol is a TLA+       *)
(* string holding one character of the text.  Markup that the converter    *)
(* itself emits is written as "<" followed by one symbol holding the rest  *)
(* of the tag, and the text that follows an interpolated capture starts    *)
(* with a one-character symbol: the regular expressions of the function    *)
(* cannot match inside the remaining multi-character symbols.  The symbols *)
(* "&mdash;", "&ndash;", "&bull;" and "&grave;" stand for the single       *)
(* characters U+2014, U+2013, U+2022 and U+0060.                           *)
(***************************************************************************)
EXTENDS Naturals, Sequences, FiniteSets, TLC

VARIABLES
  texContent,   \* the argument of convertLaTeXToHTML
  html,         \* the working text
  mathBlocks,   \* the placeholder table, in insertion order: <<[key, value], ...>>
  mathCounter,  \* the next placeholder number
  titleHtml,    \* the header block
  paragraphs,   \* the joined paragraphs (line 276)
  result,       \* the paragraphs with the placeholders replaced (line 298)
  returned,     \* the value returned (line 303)
  pc,           \* the block of the function that runs next
  mathElements, \* the elements the effect found (line 19), with what they show
  visited       \* the indices of the elements the effect has handled, in order

vars == <<texContent, html, mathBlocks, mathCounter, titleHtml, paragraphs, result,
          returned, pc, mathElements, visited>>

---------------------------------------------------------------------------
(* Character classes of the regular expressions.                           *)

\* [a-zA-Z]
Letters ==
  {"a", "b", "c", "d", "e", "f", "g", "h", "i", "j", "k", "l", "m", "n", "o", "p", "q",
   "r", "s", "t", "u", "v", "w", "x", "y", "z",
   "A", "B", "C", "D", "E", "F", "G", "H", "I", "J", "K", "L", "M", "N", "O", "P", "Q",
   "R", "S", "T", "U", "V", "W", "X", "Y", "Z"}

\* \s (and what String.prototype.trim removes)
WhiteSpace == {" ", "\n", "\t"}

\* The match of a regular expression at one position: <<end, lo, hi>>, the
\* index just past the match and the bounds of capture group 1 (hi < lo: empty).
NoMatch == <<0, 1, 0>>

\* Capture group 1 of match m in s.
Group1(s, m) == SubSeq(s, m[2], m[3])

\* The literal lit stands in s at index i.
MatchAt(s, i, lit) ==
  /\ i + Len(lit) - 1 <= Len(s)
  /\ \A k \in 1..Len(lit) : s[i + k - 1] = lit[k]

\* The length of the first of the literals alts that stands in s at i, or 0.
RECURSIVE PrefixLenFrom(_, _, _, _)
PrefixLenFrom(s, i, alts, a) ==
  IF a > Len(alts) THEN 0
  ELSE IF MatchAt(s, i, alts[a]) THEN Len(alts[a])
  ELSE PrefixLenFrom(s, i, alts, a + 1)

PrefixLen(s, i, alts) == PrefixLenFrom(s, i, alts, 1)

\* The least of the numbers S, or 0 when there is none.
Least(S) == IF S = {} THEN 0 ELSE CHOOSE x \in S : \A y \in S : x <= y

\* The least index >= from where one of the literals alts stands, or 0:
\* where a lazy [\s\S]*? followed by the literal stops.
FindAlt(s, from, alts) == Least({j \in from..Len(s) : PrefixLen(s, j, alts) > 0})

\* The least index >= from holding the character c, or 0: where [^c]* stops.
FindChar(s, from, c) == Least({j \in from..Len(s) : s[j] = c})

\* The least index >= from whose character is not in class, or Len(s) + 1:
\* where a greedy class* stops.
SkipClass(s, from, class) ==
  LET j == Least({k \in from..Len(s) : s[k] \notin class}) IN
  IF j = 0 THEN Len(s) + 1 ELSE j

\* s contains the literal lit.
Contains(s, lit) == FindAlt(s, 1, <<lit>>) > 0

\* String.prototype.trim
Trim(s) ==
  LET inner == {k \in 1..Len(s) : s[k] \notin WhiteSpace} IN
  IF inner = {} THEN <<>>
  ELSE SubSeq(s, Least(inner), CHOOSE x \in inner : \A y \in inner : y <= x)

\* String.prototype.replace with a global regular expression: M(s, i) is the
\* match at index i, Rep(s, i, m) what replaces it; the scan resumes after
\* the match.  NextMatch is the index of the leftmost match from i on, or 0.
NextMatch(M(_, _), s, i) == Least({j \in i..Len(s) : M(s, j)[1] > j})

RECURSIVE ReplaceFrom(_, _, _, _)
ReplaceFrom(M(_, _), Rep(_, _, _), s, i) ==
  LET j == NextMatch(M, s, i) IN
  IF j = 0 THEN SubSeq(s, i, Len(s))
  ELSE SubSeq(s, i, j - 1) \o Rep(s, j, M(s, j)) \o ReplaceFrom(M, Rep, s, M(s, j)[1])

ReplaceAll(M(_, _), Rep(_, _, _), s) == ReplaceFrom(M, Rep, s, 1)

---------------------------------------------------------------------------
(* The shapes of regular expression the function uses.                     *)

\* /lit/
MLit(s, i, lit) == IF MatchAt(s, i, lit) THEN <<i + Len(lit), 1, 0>> ELSE NoMatch

\* /open([\s\S]*?)close/ with open and close each one of some literals
\* (\begin\{equation\*?\} is \begin{equation} or \begin{equation*}).
MDelim(s, i, opens, closes) ==
  LET ol == PrefixLen(s, i, opens) IN
  IF ol = 0 THEN NoMatch
  ELSE LET j == FindAlt(s, i + ol, closes) IN
       IF j = 0 THEN NoMatch
       ELSE <<j + PrefixLen(s, j, closes), i + ol, j - 1>>

\* /head([^}]*)\}/ (min = 0) and /head([^}]+)\}/ (min = 1), head one of
\* some literals ending in "{".
MArg(s, i, heads, min) ==
  LET hl == PrefixLen(s, i, heads) IN
  IF hl = 0 THEN NoMatch
  ELSE LET k == FindChar(s, i + hl, "}") IN
       IF k = 0 \/ k - (i + hl) < min THEN NoMatch
       ELSE <<k + 1, i + hl, k - 1>>

\* /head([^}]*)\}\{([^}]*)\}/
MArg2(s, i, head) ==
  LET a == MArg(s, i, <<head>>, 0) IN
  IF a = NoMatch THEN NoMatch
  ELSE LET b == MArg(s, a[1], <<<<"{">>>>, 0) IN
       IF b = NoMatch THEN NoMatch ELSE <<b[1], a[2], a[3]>>

\* replace(regex, '')
Remove(M(_, _), s) == ReplaceAll(M, LAMBDA t, i, m : <<>>, s)

\* replace(/lit/g, rep)
ReplaceLit(s, lit, rep) ==
  ReplaceAll(LAMBDA t, i : MLit(t, i, lit), LAMBDA t, i, m : rep, s)

\* replace(/\\name\{[^}]*\}/g, '')
RemoveArg(s, head) == Remove(LAMBDA t, i : MArg(t, i, <<head>>, 0), s)

\* replace(/head([^}]+)\}/g, 'open$1close') and its [^}]* form
WrapArg(s, heads, min, open, close) ==
  ReplaceAll(LAMBDA t, i : MArg(t, i, heads, min),
             LAMBDA t, i, m : open \o Group1(t, m) \o close, s)

---------------------------------------------------------------------------
(* PHASE 1 (lines 41-91): math is cut out and kept in mathBlocks.          *)

\* ${mathCounter++} in a template literal: the decimal digits of n
RECURSIVE Digits(_)
Digits(n) ==
  LET d == <<"0", "1", "2", "3", "4", "5", "6", "7", "8", "9">>[(n % 10) + 1] IN
  IF n < 10 THEN <<d>> ELSE Append(Digits(n \div 10), d)

\* __MATH_DISPLAY_${mathCounter++}__ and __MATH_INLINE_${mathCounter++}__
MathKey(display, n) ==
  (IF display THEN <<"_", "_", "M", "A", "T", "H", "_", "D", "I", "S", "P", "L", "A", "Y", "_">> ELSE <<"_", "_", "M", "A", "T", "H", "_", "I", "N", "L", "I", "N", "E", "_">>) \o Digits(n) \o <<"_", "_">>

\* The container of lines 48 and 89, around the expression math.
MathContainer(display, math) ==
  IF display
  THEN <<"<", "div class=\"my-6 overflow-x-auto\" data-math=">> \o <<"\"">> \o math
         \o <<"\"">> \o <<" data-display=\"true\">">> \o <<"<", "/div>">>
  ELSE <<"<", "span data-math=">> \o <<"\"">> \o math
         \o <<"\"">> \o <<" data-display=\"false\">">> \o <<"<", "/span>">>

\* One extracting replace of phase 1: every match of M becomes a fresh key,
\* and mathBlocks[key] the container of the trimmed capture.  st is
\* [html, mathBlocks, mathCounter].
RECURSIVE ExtractFrom(_, _, _, _, _)
ExtractFrom(M(_, _), display, s, i, n) ==
  LET j == NextMatch(M, s, i) IN
  IF j = 0 THEN [html |-> SubSeq(s, i, Len(s)), mathBlocks |-> <<>>]
  ELSE LET m    == M(s, j)
           key  == MathKey(display, n)
           rest == ExtractFrom(M, display, s, m[1], n + 1)
       IN  [html       |-> SubSeq(s, i, j - 1) \o key \o rest.html,
            mathBlocks |-> <<[key   |-> key,
                              value |-> MathContainer(display, Trim(Group1(s, m)))]>>
                           \o rest.mathBlocks]

Extract(M(_, _), display, st) ==
  LET x == ExtractFrom(M, display, st.html, 1, st.mathCounter) IN
  [html        |-> x.html,
   mathBlocks  |-> st.mathBlocks \o x.mathBlocks,
   mathCounter |-> st.mathCounter + Len(x.mathBlocks)]

\* /\\begin\{env\*?\}([\s\S]*?)\\end\{env\*?\}/ for the environment named env
MEnv(s, i, env) ==
  MDelim(s, i,
         <<<<"\\", "b", "e", "g", "i", "n", "{">> \o env \o <<"}">>, <<"\\", "b", "e", "g", "i", "n", "{">> \o env \o <<"*", "}">>>>,
         <<<<"\\", "e", "n", "d", "{">> \o env \o <<"}">>, <<"\\", "e", "n", "d", "{">> \o env \o <<"*", "}">>>>)

\* /(?<!\$)\$(?!\$)((?:(?!\$).)*?)\$/ : a "$" with no "$" before or after
\* it, then characters other than "$" and line feed, then "$".
InlineEnd(s, j) ==
  LET e == Least({k \in j..Len(s) : s[k] \in {"$", "\n"}}) IN
  IF e > 0 /\ s[e] = "$" THEN e ELSE 0

MInline(s, i) ==
  IF /\ s[i] = "$"
     /\ (i = 1 \/ s[i - 1] # "$")
     /\ (i = Len(s) \/ s[i + 1] # "$")
  THEN LET j == InlineEnd(s, i + 1) IN
       IF j = 0 THEN NoMatch ELSE <<j + 1, i + 1, j - 1>>
  ELSE NoMatch

\* The display-math environments of lines 60-84, in source order.
MathEnvs == <<<<"e", "q", "u", "a", "t", "i", "o", "n">>, <<"a", "l", "i", "g", "n">>, <<"g", "a", "t", "h", "e", "r">>, <<"e", "q", "n", "a", "r", "r", "a", "y">>, <<"m", "u", "l", "t", "l", "i", "n", "e">>>>

RECURSIVE ExtractEnvs(_, _)
ExtractEnvs(st, e) ==
  IF e > Len(MathEnvs) THEN st
  ELSE ExtractEnvs(Extract(LAMBDA s, i : MEnv(s, i, MathEnvs[e]), TRUE, st), e + 1)

ProtectMath(tex) ==
  LET s0 == [html |-> tex, mathBlocks |-> <<>>, mathCounter |-> 0]
      s1 == Extract(LAMBDA s, i : MDelim(s, i, <<<<"\\", "[">>>>, <<<<"\\", "]">>>>), TRUE, s0)
      s2 == Extract(LAMBDA s, i : MDelim(s, i, <<<<"$", "$">>>>, <<<<"$", "$">>>>), TRUE, s1)
      s3 == ExtractEnvs(s2, 1)
  IN  Extract(MInline, FALSE, s3)


---------------------------------------------------------------------------
(* PHASE 2 (lines 93-107): the preamble and the tables are removed.        *)

\* /\\usepackage(?:\[[^\]]*\])?\{[^}]*\}/
MUsePackage(s, i) ==
  LET p == i + Len(<<"\\", "u", "s", "e", "p", "a", "c", "k", "a", "g", "e">>) IN
  IF ~MatchAt(s, i, <<"\\", "u", "s", "e", "p", "a", "c", "k", "a", "g", "e">>) THEN NoMatch
  ELSE IF p <= Len(s) /\ s[p] = "["
  THEN LET r == FindChar(s, p + 1, "]") IN
       IF r = 0 THEN NoMatch
       ELSE LET m == MArg(s, r + 1, <<<<"{">>>>, 0) IN
            IF m = NoMatch THEN NoMatch ELSE <<m[1], 1, 0>>
  ELSE LET m == MArg(s, p, <<<<"{">>>>, 0) IN
       IF m = NoMatch THEN NoMatch ELSE <<m[1], 1, 0>>

\* /\\begin\{tabular\}[^}]*\}[\s\S]*?\\end\{tabular\}/
MTabular(s, i) ==
  LET a == MArg(s, i, <<<<"\\", "b", "e", "g", "i", "n", "{", "t", "a", "b", "u", "l", "a", "r", "}">>>>, 0) IN
  IF a = NoMatch THEN NoMatch
  ELSE LET j == FindAlt(s, a[1], <<<<"\\", "e", "n", "d", "{", "t", "a", "b", "u", "l", "a", "r", "}">>>>) IN
       IF j = 0 THEN NoMatch ELSE <<j + Len(<<"\\", "e", "n", "d", "{", "t", "a", "b", "u", "l", "a", "r", "}">>), 1, 0>>

StripPreamble(h) ==
  LET h1  == RemoveArg(h, <<"\\", "d", "o", "c", "u", "m", "e", "n", "t", "c", "l", "a", "s", "s", "{">>)
      h2  == Remove(MUsePackage, h1)
      h3  == RemoveArg(h2, <<"\\", "g", "e", "o", "m", "e", "t", "r", "y", "{">>)
      h4  == RemoveArg(h3, <<"\\", "p", "a", "g", "e", "s", "t", "y", "l", "e", "{">>)
      h5  == Remove(LAMBDA s, i : MArg2(s, i, <<"\\", "s", "e", "t", "c", "o", "u", "n", "t", "e", "r", "{">>), h4)
      h6  == Remove(LAMBDA s, i : MArg2(s, i, <<"\\", "r", "e", "n", "e", "w", "c", "o", "m", "m", "a", "n", "d", "{">>), h5)
      h7  == ReplaceLit(h6, <<"\\", "b", "e", "g", "i", "n", "{", "d", "o", "c", "u", "m", "e", "n", "t", "}">>, <<>>)
      h8  == ReplaceLit(h7, <<"\\", "e", "n", "d", "{", "d", "o", "c", "u", "m", "e", "n", "t", "}">>, <<>>)
      h9  == Remove(LAMBDA s, i : MDelim(s, i, <<<<"\\", "b", "e", "g", "i", "n", "{", "a", "b", "s", "t", "r", "a", "c", "t", "}">>>>, <<<<"\\", "e", "n", "d", "{", "a", "b", "s", "t", "r", "a", "c", "t", "}">>>>), h8)
      h10 == ReplaceLit(h9, <<"\\", "m", "a", "k", "e", "t", "i", "t", "l", "e">>, <<>>)
      h11 == Remove(LAMBDA s, i : MEnv(s, i, <<"t", "a", "b", "l", "e">>), h10)
  IN  Remove(MTabular, h11)

---------------------------------------------------------------------------
(* PHASE 3 (lines 109-265): the structural commands.                       *)

\* String.prototype.match without the g flag: the leftmost match of M in s
\* from index i on, or NoMatch (null).
FirstMatch(M(_, _), s, i) ==
  LET j == NextMatch(M, s, i) IN
  IF j = 0 THEN NoMatch ELSE M(s, j)

\* One header line: html.match(/head([^}]+)\}/) between open and close, or
\* nothing when there is no match.
HeaderLine(h, head, open, close) ==
  LET m == FirstMatch(LAMBDA s, i : MArg(s, i, <<head>>, 1), h, 1) IN
  IF m = NoMatch THEN <<>> ELSE open \o Group1(h, m) \o close \o <<"\n">>

\* Lines 110-123, and again lines 147-160: titleMatch, authorMatch,
\* dateMatch and the titleHtml built from them.
TitleBlock(h) ==
  HeaderLine(h, <<"\\", "t", "i", "t", "l", "e", "{">>, <<"<", "h1 class=\"text-5xl font-bold mb-4 text-white\">">>, <<"<", "/h1>">>)
  \o HeaderLine(h, <<"\\", "a", "u", "t", "h", "o", "r", "{">>, <<"<", "p class=\"text-lg text-gray-400 mb-2\">">>, <<"<", "/p>">>)
  \o HeaderLine(h, <<"\\", "d", "a", "t", "e", "{">>, <<"<", "p class=\"text-sm text-gray-500 mb-8\">">>, <<"<", "/p>">>)

\* Lines 125-127, and again lines 162-164.
RemoveFrontMatter(h) ==
  LET h1 == Remove(LAMBDA s, i : MArg(s, i, <<<<"\\", "t", "i", "t", "l", "e", "{">>>>, 1), h)
      h2 == Remove(LAMBDA s, i : MArg(s, i, <<<<"\\", "a", "u", "t", "h", "o", "r", "{">>>>, 1), h1)
  IN  Remove(LAMBDA s, i : MArg(s, i, <<<<"\\", "d", "a", "t", "e", "{">>>>, 1), h2)

\* /\\name\*?\{/ : the two heads of a command with an optional star
Starred(name) == <<<<"\\">> \o name \o <<"{">>, <<"\\">> \o name \o <<"*", "{">>>>

\* Lines 130-133, and again lines 184-187.
Sections(h) ==
  LET h1 == WrapArg(h, Starred(<<"s", "e", "c", "t", "i", "o", "n">>), 1,
                    <<"<", "h2 class=\"text-4xl font-bold mt-12 mb-6 text-white border-b-2 border-orange-500 pb-3\">">>, <<"<", "/h2>">>)
      h2 == WrapArg(h1, Starred(<<"s", "u", "b", "s", "e", "c", "t", "i", "o", "n">>), 1,
                    <<"<", "h3 class=\"text-3xl font-semibold mt-10 mb-5 text-gray-100\">">>, <<"<", "/h3>">>)
      h3 == WrapArg(h2, Starred(<<"s", "u", "b", "s", "u", "b", "s", "e", "c", "t", "i", "o", "n">>), 1,
                    <<"<", "h4 class=\"text-2xl font-semibold mt-8 mb-4 text-gray-200\">">>, <<"<", "/h4>">>)
  IN  WrapArg(h3, Starred(<<"p", "a", "r", "a", "g", "r", "a", "p", "h">>), 1,
              <<"<", "h5 class=\"text-xl font-semibold mt-6 mb-3 text-gray-300\">">>, <<"<", "/h5>">>)

\* Lines 136-143, and again lines 190-197.
TextFormatting(h) ==
  LET h1 == WrapArg(h, <<<<"\\", "t", "e", "x", "t", "b", "f", "{">>>>, 1, <<"<", "strong class=\"font-bold\">">>, <<"<", "/strong>">>)
      h2 == WrapArg(h1, <<<<"\\", "t", "e", "x", "t", "i", "t", "{">>>>, 1, <<"<", "em class=\"italic\">">>, <<"<", "/em>">>)
      h3 == WrapArg(h2, <<<<"\\", "t", "e", "x", "t", "t", "t", "{">>>>, 1,
                    <<"<", "code class=\"bg-cosmic-800 px-2 py-1 rounded text-sm font-mono\">">>, <<"<", "/code>">>)
      h4 == WrapArg(h3, <<<<"\\", "t", "e", "x", "t", "s", "l", "{">>>>, 1, <<"<", "em class=\"italic\">">>, <<"<", "/em>">>)
      h5 == WrapArg(h4, <<<<"\\", "t", "e", "x", "t", "s", "c", "{">>>>, 1,
                    <<"<", "span class=\"uppercase tracking-wide text-sm\">">>, <<"<", "/span>">>)
      h6 == WrapArg(h5, <<<<"\\", "t", "e", "x", "t", "r", "m", "{">>>>, 1, <<"<", "span class=\"font-serif\">">>, <<"<", "/span>">>)
      h7 == WrapArg(h6, <<<<"\\", "t", "e", "x", "t", "s", "f", "{">>>>, 1, <<"<", "span class=\"font-sans\">">>, <<"<", "/span>">>)
  IN  WrapArg(h7, <<<<"\\", "e", "m", "p", "h", "{">>>>, 1, <<"<", "em class=\"italic\">">>, <<"<", "/em>">>)

\* Lines 144 and 199: replace(/\\texorpdfstring\{([^}]*)\}\{([^}]*)\}/g, '$1')
TexOrPdfString(h) ==
  ReplaceAll(LAMBDA s, i : MArg2(s, i, <<"\\", "t", "e", "x", "o", "r", "p", "d", "f", "s", "t", "r", "i", "n", "g", "{">>),
             LAMBDA s, i, m : Group1(s, m), h)

\* Line 198
TextUp(h) == WrapArg(h, <<<<"\\", "t", "e", "x", "t", "u", "p", "{">>>>, 1, <<"<", "span class=\"not-italic\">">>, <<"<", "/span>">>)

\* Lines 167-168, and again lines 252-253.
LineBreaks(h) ==
  ReplaceLit(ReplaceLit(h, <<"\\", "\\">>, <<"<", "br />">>), <<"\\", "n", "e", "w", "l", "i", "n", "e">>, <<"<", "br />">>)

\* Lines 171-181: math still in the text goes into a container as it
\* stands ('... data-math="$1" ...'), untrimmed.
RECURSIVE LegacyEnvs(_, _)
LegacyEnvs(h, e) ==
  IF e > Len(MathEnvs) THEN h
  ELSE LET h1 == ReplaceAll(LAMBDA s, i : MEnv(s, i, MathEnvs[e]),
                            LAMBDA s, i, m : MathContainer(TRUE, Group1(s, m)), h)
           \* line 175: /\\begin\{align\}([\s\S]*?)\\end\{align\}/
           h2 == IF MathEnvs[e] = <<"a", "l", "i", "g", "n">>
                 THEN ReplaceAll(LAMBDA s, i : MDelim(s, i, <<<<"\\", "b", "e", "g", "i", "n", "{", "a", "l", "i", "g", "n", "}">>>>, <<<<"\\", "e", "n", "d", "{", "a", "l", "i", "g", "n", "}">>>>),
                                 LAMBDA s, i, m : MathContainer(TRUE, Group1(s, m)), h1)
                 ELSE h1
       IN  LegacyEnvs(h2, e + 1)

LegacyMath(h) ==
  LET h1 == ReplaceAll(LAMBDA s, i : MDelim(s, i, <<<<"\\", "[">>>>, <<<<"\\", "]">>>>),
                       LAMBDA s, i, m : MathContainer(TRUE, Group1(s, m)), h)
      h2 == ReplaceAll(LAMBDA s, i : MDelim(s, i, <<<<"$", "$">>>>, <<<<"$", "$">>>>),
                       LAMBDA s, i, m : MathContainer(TRUE, Group1(s, m)), h1)
      h3 == LegacyEnvs(h2, 1)
  IN  ReplaceAll(MInline, LAMBDA s, i, m : MathContainer(FALSE, Group1(s, m)), h3)

\* /\\item\s+([^\n]*?)(?=\\item|\\end)/ : where the lazy [^\n]*? stops, the
\* least index from k on where \item or \end stands with no line feed
\* before it, or 0.
ItemEnd(s, k) ==
  LET e == Least({j \in k..Len(s) :
                    s[j] = "\n" \/ PrefixLen(s, j, <<<<"\\", "i", "t", "e", "m">>, <<"\\", "e", "n", "d">>>>) > 0}) IN
  IF e > 0 /\ s[e] # "\n" THEN e ELSE 0

MItem(s, i) ==
  IF ~MatchAt(s, i, <<"\\", "i", "t", "e", "m">>) THEN NoMatch
  ELSE LET q == SkipClass(s, i + Len(<<"\\", "i", "t", "e", "m">>), WhiteSpace) IN
       IF q = i + Len(<<"\\", "i", "t", "e", "m">>) THEN NoMatch
       ELSE LET e == ItemEnd(s, q) IN
            IF e = 0 THEN NoMatch ELSE <<e, q, e - 1>>

\* items.match(regex with the g flag) || []: the matched texts, in order.
RECURSIVE MatchAll(_, _, _)
MatchAll(M(_, _), s, i) ==
  LET j == NextMatch(M, s, i) IN
  IF j = 0 THEN <<>>
  ELSE <<SubSeq(s, j, M(s, j)[1] - 1)>> \o MatchAll(M, s, M(s, j)[1])

\* Lines 206-208 and 220-222: the text of one matched item.
ItemText(item) ==
  LET \* item.replace(/\\item\s+/, ''): the first match only
      m    == FirstMatch(LAMBDA s, i : IF MatchAt(s, i, <<"\\", "i", "t", "e", "m">>)
                                          /\ SkipClass(s, i + 5, WhiteSpace) > i + 5
                                       THEN <<SkipClass(s, i + 5, WhiteSpace), i, 0>>
                                       ELSE NoMatch, item, 1)
      cut  == IF m = NoMatch THEN item
              ELSE SubSeq(item, 1, m[2] - 1) \o SubSeq(item, m[1], Len(item))
      text == Trim(cut)
      t1   == WrapArg(text, <<<<"\\", "t", "e", "x", "t", "b", "f", "{">>>>, 1, <<"<", "strong>">>, <<"<", "/strong>">>)
  IN  WrapArg(t1, <<<<"\\", "t", "e", "x", "t", "i", "t", "{">>>>, 1, <<"<", "em>">>, <<"<", "/em>">>)

\* Lines 204-211 and 218-225: itemList.map(...).join(''); the label of item
\* idx is a bullet (itemize) or idx + 1 and a full stop (enumerate).
RECURSIVE ListItems(_, _, _)
ListItems(itemList, ordered, idx) ==
  IF idx >= Len(itemList) THEN <<>>
  ELSE <<"<", "li class=\"ml-4 mb-2 flex items-start\">", "<", "span class=\"mr-3\">">>
       \o (IF ordered THEN Digits(idx + 1) \o <<".">> ELSE <<"&bull;">>)
       \o <<"<", "/span>", "<", "span>">> \o ItemText(itemList[idx + 1]) \o <<"<", "/span>", "<", "/li>">>
       \o ListItems(itemList, ordered, idx + 1)

\* Lines 202-213 (itemize) and 216-227 (enumerate).
Lists(h) ==
  LET h1 == ReplaceAll(LAMBDA s, i : MDelim(s, i, <<<<"\\", "b", "e", "g", "i", "n", "{", "i", "t", "e", "m", "i", "z", "e", "}">>>>, <<<<"\\", "e", "n", "d", "{", "i", "t", "e", "m", "i", "z", "e", "}">>>>),
                       LAMBDA s, i, m :
                         <<"<", "ul class=\"my-4\">">>
                         \o ListItems(MatchAll(MItem, Group1(s, m), 1), FALSE, 0)
                         \o <<"<", "/ul>">>, h)
  IN  ReplaceAll(LAMBDA s, i : MDelim(s, i, <<<<"\\", "b", "e", "g", "i", "n", "{", "e", "n", "u", "m", "e", "r", "a", "t", "e", "}">>>>, <<<<"\\", "e", "n", "d", "{", "e", "n", "u", "m", "e", "r", "a", "t", "e", "}">>>>),
                 LAMBDA s, i, m :
                   <<"<", "ol class=\"my-4\">">>
                   \o ListItems(MatchAll(MItem, Group1(s, m), 1), TRUE, 0)
                   \o <<"<", "/ol>">>, h1)

\* Lines 230-236: footnotes, citations, references, labels.
Citation == <<"<", "sup class=\"text-xs text-orange-400\">">> \o <<"[", "c", "i", "t", "a", "t", "i", "o", "n", "]">> \o <<"<", "/sup>">>

NotesAndRefs(h) ==
  LET h1 == ReplaceAll(LAMBDA s, i : MArg(s, i, <<<<"\\", "f", "o", "o", "t", "n", "o", "t", "e", "{">>>>, 0),
                       LAMBDA s, i, m : <<"<", "sup class=\"text-xs text-orange-400\">">> \o <<"[", "*", "]">> \o <<"<", "/sup>">>, h)
      h2 == ReplaceAll(LAMBDA s, i : MArg(s, i, <<<<"\\", "c", "i", "t", "e", "{">>>>, 0), LAMBDA s, i, m : Citation, h1)
      h3 == ReplaceAll(LAMBDA s, i : MArg(s, i, <<<<"\\", "c", "i", "t", "e", "p", "{">>>>, 0), LAMBDA s, i, m : Citation, h2)
      h4 == ReplaceAll(LAMBDA s, i : MArg(s, i, <<<<"\\", "c", "i", "t", "e", "t", "{">>>>, 0), LAMBDA s, i, m : Citation, h3)
      h5 == ReplaceAll(LAMBDA s, i : MArg(s, i, <<<<"\\", "r", "e", "f", "{">>>>, 0),
                       LAMBDA s, i, m :
                         <<"<", "a href=">> \o <<"\"", "#">> \o Group1(s, m) \o <<"\"">>
                         \o <<" class=\"text-orange-500 hover:underline\">Ref.">> \o <<" ">>
                         \o Group1(s, m) \o <<"<", "/a>">>, h4)
      h6 == ReplaceAll(LAMBDA s, i : MArg(s, i, <<<<"\\", "e", "q", "r", "e", "f", "{">>>>, 0),
                       LAMBDA s, i, m :
                         <<"<", "a href=">> \o <<"\"", "#">> \o Group1(s, m) \o <<"\"">>
                         \o <<" class=\"text-orange-500 hover:underline\">">> \o <<"(">>
                         \o Group1(s, m) \o <<")">> \o <<"<", "/a>">>, h5)
  IN  ReplaceAll(LAMBDA s, i : MArg(s, i, <<<<"\\", "l", "a", "b", "e", "l", "{">>>>, 0),
                 LAMBDA s, i, m : <<"<", "a id=">> \o <<"\"">> \o Group1(s, m) \o <<"\"", ">">> \o <<"<", "/a>">>, h6)

\* /\\begin\{figure\*?\}[\s\S]*?\\caption\{([^}]*)\}[\s\S]*?\\end\{figure\*?\}/
MFigure(s, i) ==
  LET ol == PrefixLen(s, i, <<<<"\\", "b", "e", "g", "i", "n", "{", "f", "i", "g", "u", "r", "e", "}">>, <<"\\", "b", "e", "g", "i", "n", "{", "f", "i", "g", "u", "r", "e", "*", "}">>>>) IN
  IF ol = 0 THEN NoMatch
  ELSE LET c == FindAlt(s, i + ol, <<<<"\\", "c", "a", "p", "t", "i", "o", "n", "{">>>>) IN
       IF c = 0 THEN NoMatch
       ELSE LET a == MArg(s, c, <<<<"\\", "c", "a", "p", "t", "i", "o", "n", "{">>>>, 0) IN
            IF a = NoMatch THEN NoMatch
            ELSE LET e == FindAlt(s, a[1], <<<<"\\", "e", "n", "d", "{", "f", "i", "g", "u", "r", "e", "}">>, <<"\\", "e", "n", "d", "{", "f", "i", "g", "u", "r", "e", "*", "}">>>>) IN
                 IF e = 0 THEN NoMatch
                 ELSE <<e + PrefixLen(s, e, <<<<"\\", "e", "n", "d", "{", "f", "i", "g", "u", "r", "e", "}">>, <<"\\", "e", "n", "d", "{", "f", "i", "g", "u", "r", "e", "*", "}">>>>), a[2], a[3]>>

\* /\\includegraphics(?:\s*\[[^\]]*\])?\s*\{([^}]+)\}/
MIncludeGraphics(s, i) ==
  IF ~MatchAt(s, i, <<"\\", "i", "n", "c", "l", "u", "d", "e", "g", "r", "a", "p", "h", "i", "c", "s">>) THEN NoMatch
  ELSE LET q == SkipClass(s, i + Len(<<"\\", "i", "n", "c", "l", "u", "d", "e", "g", "r", "a", "p", "h", "i", "c", "s">>), WhiteSpace) IN
       IF q <= Len(s) /\ s[q] = "["
       THEN LET r == FindChar(s, q + 1, "]") IN
            IF r = 0 THEN NoMatch
            ELSE MArg(s, SkipClass(s, r + 1, WhiteSpace), <<<<"{">>>>, 1)
       ELSE MArg(s, q, <<<<"{">>>>, 1)

\* path.split('/').pop(): what follows the last "/" of path
RECURSIVE LastSegment(_)
LastSegment(path) ==
  LET k == FindChar(path, 1, "/") IN
  IF k = 0 THEN path ELSE LastSegment(SubSeq(path, k + 1, Len(path)))

\* Lines 239-244
Figures(h) ==
  LET h1 == ReplaceAll(MFigure,
                       LAMBDA s, i, m :
                         <<"<", "figure class=\"my-8\">", "<", "figcaption class=\"text-sm text-gray-400 italic mt-2\">">>
                         \o Group1(s, m) \o <<"<", "/figcaption>", "<", "/figure>">>, h)
  IN  ReplaceAll(MIncludeGraphics,
                 LAMBDA s, i, m :
                   <<"<", "img src=\"/assets/">> \o LastSegment(Group1(s, m)) \o <<"\"">>
                   \o <<" alt=\"figure\" class=\"max-w-full h-auto rounded-lg my-4\" loading=\"lazy\" />">>, h1)

\* Lines 247-249
Verbatim(h) ==
  ReplaceAll(LAMBDA s, i : MDelim(s, i, <<<<"\\", "b", "e", "g", "i", "n", "{", "v", "e", "r", "b", "a", "t", "i", "m", "}">>>>, <<<<"\\", "e", "n", "d", "{", "v", "e", "r", "b", "a", "t", "i", "m", "}">>>>),
             LAMBDA s, i, m :
               <<"<", "pre class=\"bg-cosmic-800 p-4 rounded overflow-x-auto text-sm my-4\">", "<", "code>">>
               \o Trim(Group1(s, m)) \o <<"<", "/code>", "<", "/pre>">>, h)

\* Lines 256-265: the special text replacements, in source order.
Escapes(h) ==
  LET h1 == ReplaceLit(h, <<"\\", "t", "e", "x", "t", "b", "a", "c", "k", "s", "l", "a", "s", "h">>, <<"\\">>)
      h2 == ReplaceLit(h1, <<"\\", "$">>, <<"$">>)
      h3 == ReplaceLit(h2, <<"\\", "%">>, <<"%">>)
      h4 == ReplaceLit(h3, <<"\\", "{">>, <<"{">>)
      h5 == ReplaceLit(h4, <<"\\", "}">>, <<"}">>)
      h6 == ReplaceLit(h5, <<"\\", "_">>, <<"_">>)
      h7 == ReplaceLit(h6, <<"-", "-", "-">>, <<"&mdash;">>)
      h8 == ReplaceLit(h7, <<"-", "-">>, <<"&ndash;">>)
      h9 == ReplaceLit(h8, <<"&grave;", "&grave;">>, <<"\"">>)
  IN  ReplaceLit(h9, <<"'", "'">>, <<"\"">>)

---------------------------------------------------------------------------
(* PHASE 4 (lines 267-273): what is left of LaTeX is removed.              *)

\* /\\[a-zA-Z]+\{[^}]*\}/
MCommandArg(s, i) ==
  IF s[i] # "\\" THEN NoMatch
  ELSE LET j == SkipClass(s, i + 1, Letters) IN
       IF j = i + 1 THEN NoMatch ELSE MArg(s, j, <<<<"{">>>>, 0)

\* /\\[a-zA-Z]+/
MCommand(s, i) ==
  IF s[i] # "\\" THEN NoMatch
  ELSE LET j == SkipClass(s, i + 1, Letters) IN
       IF j = i + 1 THEN NoMatch ELSE <<j, 1, 0>>

\* /\\[^a-zA-Z]/
MSymbol(s, i) ==
  IF s[i] = "\\" /\ i < Len(s) /\ s[i + 1] \notin Letters THEN <<i + 2, 1, 0>> ELSE NoMatch

FallbackSanitize(h) == Remove(MSymbol, Remove(MCommand, Remove(MCommandArg, h)))

---------------------------------------------------------------------------
(* Lines 275-295: the paragraphs.                                          *)

\* html.split(/\n\n+/): the pieces between the runs of two or more line feeds
RECURSIVE SplitBlank(_, _)
SplitBlank(s, i) ==
  LET j == FindAlt(s, i, <<<<"\n", "\n">>>>) IN
  IF j = 0 THEN <<SubSeq(s, i, Len(s))>>
  ELSE <<SubSeq(s, i, j - 1)>> \o SplitBlank(s, SkipClass(s, j, {"\n"}))

\* The tags the converter emits that /^<(h[1-6]|ul|ol|div|figure|img|table|blockquote|pre|br)/
\* accepts, without their "<".
BlockOpenings ==
  {<<"<", "h2 class=\"text-4xl font-bold mt-12 mb-6 text-white border-b-2 border-orange-500 pb-3\">">>[2],
   <<"<", "h3 class=\"text-3xl font-semibold mt-10 mb-5 text-gray-100\">">>[2],
   <<"<", "h4 class=\"text-2xl font-semibold mt-8 mb-4 text-gray-200\">">>[2],
   <<"<", "h5 class=\"text-xl font-semibold mt-6 mb-3 text-gray-300\">">>[2],
   <<"<", "ul class=\"my-4\">">>[2], <<"<", "ol class=\"my-4\">">>[2],
   <<"<", "div class=\"my-6 overflow-x-auto\" data-math=">>[2],
   <<"<", "figure class=\"my-8\">">>[2], <<"<", "img src=\"/assets/">>[2],
   <<"<", "pre class=\"bg-cosmic-800 p-4 rounded overflow-x-auto text-sm my-4\">">>[2],
   <<"<", "br />">>[2]}

\* The same names written out in the text, character by character.
BlockNames ==
  <<<<"h", "1">>, <<"h", "2">>, <<"h", "3">>, <<"h", "4">>, <<"h", "5">>, <<"h", "6">>, <<"u", "l">>, <<"o", "l">>, <<"d", "i", "v">>, <<"f", "i", "g", "u", "r", "e">>, <<"i", "m", "g">>,
    <<"t", "a", "b", "l", "e">>, <<"b", "l", "o", "c", "k", "q", "u", "o", "t", "e">>, <<"p", "r", "e">>, <<"b", "r">>>>

\* /^<(h[1-6]|ul|ol|div|figure|img|table|blockquote|pre|br)/.test(para)
IsBlock(para) ==
  /\ Len(para) >= 2
  /\ para[1] = "<"
  /\ (para[2] \in BlockOpenings \/ PrefixLen(para, 2, BlockNames) > 0)

\* para.replace(/\s+/g, ' ')
MSpaces(s, i) ==
  IF s[i] \in WhiteSpace THEN <<SkipClass(s, i, WhiteSpace), 1, 0>> ELSE NoMatch

\* Lines 278-293: what one piece becomes.
Paragraph(piece) ==
  LET para == Trim(piece) IN
  IF para = <<>> THEN <<>>
  ELSE IF IsBlock(para) THEN para
  ELSE LET joined == IF FindChar(para, 1, "\n") > 0
                     THEN ReplaceAll(MSpaces, LAMBDA s, i, m : <<" ">>,
                                     ReplaceLit(para, <<"\n">>, <<" ">>))
                     ELSE para
       IN  <<"<", "p class=\"mb-4 leading-relaxed text-gray-200\">">> \o joined \o <<"<", "/p>">>

RECURSIVE JoinParagraphs(_, _)
JoinParagraphs(pieces, k) ==
  IF k > Len(pieces) THEN <<>>
  ELSE Paragraph(pieces[k]) \o JoinParagraphs(pieces, k + 1)

Paragraphize(h) == JoinParagraphs(SplitBlank(h, 1), 1)

---------------------------------------------------------------------------
(* PHASE 5 (lines 297-303): the placeholders are replaced.                 *)

\* The replacement text of String.prototype.replace when the replacement is
\* a string: in value, "$$" is "$", "$&" the match, "$" and a grave accent
\* the text before the match, "$" and an apostrophe the text after it (the regular expression of line 300 has
\* no groups: "$1" stays as it is).  s[i..e-1] is the match.
MDollar(v, j) ==
  IF v[j] = "$" /\ j < Len(v) /\ v[j + 1] \in {"$", "&", "&grave;", "'"}
  THEN <<j + 2, 1, 0>> ELSE NoMatch

Substitution(value, s, i, e) ==
  ReplaceAll(MDollar,
             LAMBDA v, j, m : CASE v[j + 1] = "$" -> <<"$">>
                                [] v[j + 1] = "&" -> SubSeq(s, i, e - 1)
                                [] v[j + 1] = "&grave;" -> SubSeq(s, 1, i - 1)
                                [] v[j + 1] = "'" -> SubSeq(s, e, Len(s)),
             value)

\* Lines 299-301: for (const [key, value] of Object.entries(mathBlocks)),
\* in insertion order.
RECURSIVE RestoreMath(_, _, _)
RestoreMath(res, blocks, k) ==
  IF k > Len(blocks) THEN res
  ELSE RestoreMath(ReplaceAll(LAMBDA s, i : MLit(s, i, blocks[k].key),
                              LAMBDA s, i, m : Substitution(blocks[k].value, s, i, m[1]),
                              res),
                   blocks, k + 1)


---------------------------------------------------------------------------
(* The documents the conversion is run on.                                 *)

\* The most pieces a composed document is made of.
MaxPieces == 2

\* The most items a list document has.
MaxItems == 2

\* The longest string the special text replacements are applied to alone.
MaxEscLen == 3

\* The pieces documents are composed of.
Pieces ==
  <<<<"\\", "s", "e", "c", "t", "i", "o", "n", "{", "A", "}">>, <<"t", "e", "x", "t">>, <<" ">>, <<"\n", "\n">>, <<"\n">>, <<"$", "x", "$">>, <<"\\", "[", "y", "\\", "]">>, <<"\\", "t", "i", "t", "l", "e", "{", "T", "}">>,
    <<"\\", "f", "o", "o">>, <<"{", "b", "}">>, <<"\\", "{">>, <<"\\", "}">>, <<"\\", "$">>, <<"-", "-">>, <<"\\", "t", "e", "x", "t", "b", "a", "c", "k", "s", "l", "a", "s", "h">>,
    <<"\\", "b", "e", "g", "i", "n", "{", "v", "e", "r", "b", "a", "t", "i", "m", "}">>, <<"\\", "e", "n", "d", "{", "v", "e", "r", "b", "a", "t", "i", "m", "}">>, <<"\\", "t", "e", "x", "t", "b", "f", "{", "c", "}">>>>

\* The documents made of at most n pieces.
RECURSIVE Composed(_)
Composed(n) ==
  IF n = 0 THEN {<<>>}
  ELSE LET shorter == Composed(n - 1) IN
       shorter \cup {d \o Pieces[k] : d \in shorter, k \in 1..Len(Pieces)}

\* The bodies of list items.
ItemBodies == {<<"F", "i", "r", "s", "t">>, <<"S", "e", "c", "o", "n", "d">>}

\* The lists of at most MaxItems item bodies, the empty list left out.
ItemLists == UNION {[1..n -> ItemBodies] : n \in 1..MaxItems}

\* An itemize or enumerate environment with the items bodies, each after
\* "\item ", on one line or each ended by a line feed.
RECURSIVE ItemSource(_, _, _)
ItemSource(bodies, lines, k) ==
  IF k > Len(bodies) THEN <<>>
  ELSE <<"\\", "i", "t", "e", "m", " ">> \o bodies[k] \o (IF lines THEN <<"\n">> ELSE <<>>) \o ItemSource(bodies, lines, k + 1)

ListSource(env, bodies, lines) ==
  <<"\\", "b", "e", "g", "i", "n", "{">> \o env \o <<"}">> \o (IF lines THEN <<"\n">> ELSE <<>>)
  \o ItemSource(bodies, lines, 1) \o <<"\\", "e", "n", "d", "{">> \o env \o <<"}">>

ListDocuments ==
  {ListSource(env, bodies, lines) :
     env \in {<<"i", "t", "e", "m", "i", "z", "e">>, <<"e", "n", "u", "m", "e", "r", "a", "t", "e">>}, bodies \in ItemLists, lines \in BOOLEAN}

\* A sectioning command, then text with inline math, in one segment.
SectionCommands == {<<"s", "e", "c", "t", "i", "o", "n">>, <<"s", "u", "b", "s", "e", "c", "t", "i", "o", "n">>, <<"s", "u", "b", "s", "u", "b", "s", "e", "c", "t", "i", "o", "n">>, <<"p", "a", "r", "a", "g", "r", "a", "p", "h">>}

SectionSource(cmd) == <<"\\">> \o cmd \o <<"{", "I", "n", "t", "r", "o", "}", " ", "H", "e", "l", "l", "o", " ", "$", "x", "^", "2", "$", " ", "w", "o", "r", "l", "d", ".">>

\* Documents written out: the examples of the specification and documents
\* that exercise the single constructs.
Examples ==
  {<<"\\", "t", "i", "t", "l", "e", "{", "T", "}", "\\", "a", "u", "t", "h", "o", "r", "{", "A", "}", "\\", "b", "e", "g", "i", "n", "{", "d", "o", "c", "u", "m", "e", "n", "t", "}", "\\", "m", "a", "k", "e", "t", "i", "t", "l", "e", " ", "B", "o", "d", "y", "\\", "e", "n", "d", "{", "d", "o", "c", "u", "m", "e", "n", "t", "}">>,
   <<"\\", "u", "n", "k", "n", "o", "w", "n", "c", "m", "d", "{", "i", "g", "n", "o", "r", "e", "d", "}", " ", "V", "i", "s", "i", "b", "l", "e", " ", "t", "e", "x", "t", ".">>,
   <<"\\", "b", "e", "g", "i", "n", "{", "e", "q", "u", "a", "t", "i", "o", "n", "}", "E", "=", "m", "c", "^", "2", "\\", "e", "n", "d", "{", "e", "q", "u", "a", "t", "i", "o", "n", "}">>,
   <<"\\", "[", "a", "$", "$", "b", "\\", "]">>,
   <<"$", "$", "a", "\\", "[", "b", "\\", "]", "c", "$", "$">>,
   <<"\\", "t", "e", "x", "o", "r", "p", "d", "f", "s", "t", "r", "i", "n", "g", "{", "\\", "t", "i", "t", "l", "e", "}", "{", "x", "}", "{", "O", "n", " ", "$", "y", "$", " ", "a", "n", "d", " ", "\\", "f", "o", "o", "}">>,
   <<"\\", "t", "i", "t", "l", "e", "{", "T", "}", "\\", "t", "i", "t", "l", "e", "{", "U", "}", "\\", "d", "a", "t", "e", "{", "D", "}">>,
   <<"c", "o", "s", "t", " ", "\\", "$", "5", " ", "a", "n", "d", " ", "\\", "$", "6">>,
   <<"a", " ", "\\", "{", "b", "\\", "}", " ", "c">>,
   <<"\\", "f", "o", "o", "\\", "{", "b", "\\", "}", " ", "c">>,
   <<"a", "\\", "t", "e", "x", "t", "b", "a", "c", "k", "s", "l", "a", "s", "h", " ", "b">>,
   <<"5", "0", "\\", "%", " ", "o", "f", " ", "a", "\\", "_", "b">>,
   <<"\\", "b", "e", "g", "i", "n", "{", "v", "e", "r", "b", "a", "t", "i", "m", "}", "a", "-", "-", "b", "\\", "e", "n", "d", "{", "v", "e", "r", "b", "a", "t", "i", "m", "}">>,
   <<"\\", "b", "e", "g", "i", "n", "{", "v", "e", "r", "b", "a", "t", "i", "m", "}", " ", "x", "\n", "\n", " ", "\\", "t", "e", "x", "t", "b", "f", "{", "y", "}", " ", "\\", "e", "n", "d", "{", "v", "e", "r", "b", "a", "t", "i", "m", "}">>,
   <<"H", "e", "l", "l", "o", "\n", "\\", "s", "e", "c", "t", "i", "o", "n", "{", "A", "}">>,
   <<"x", "\n", "\n", "\\", "[", "y", "\\", "]", "\n", "\n", "z">>,
   <<"a", "\n", "b", " ", "$", "x", "$", " ", "c", "\n", "\n", "\\", "b", "e", "g", "i", "n", "{", "a", "l", "i", "g", "n", "*", "}", "z", "\\", "e", "n", "d", "{", "a", "l", "i", "g", "n", "*", "}">>,
   <<"\\", "b", "e", "g", "i", "n", "{", "i", "t", "e", "m", "i", "z", "e", "}", "\\", "i", "t", "e", "m", " ", "\\", "t", "e", "x", "t", "b", "f", "{", "B", "}", " ", "x", " ", "\\", "i", "t", "e", "m", " ", " ", "y", "\\", "e", "n", "d", "{", "i", "t", "e", "m", "i", "z", "e", "}">>,
   <<"\\", "b", "e", "g", "i", "n", "{", "f", "i", "g", "u", "r", "e", "}", "x", "\\", "c", "a", "p", "t", "i", "o", "n", "{", "C", "}", "\\", "i", "n", "c", "l", "u", "d", "e", "g", "r", "a", "p", "h", "i", "c", "s", "[", "w", "]", "{", "a", "/", "b", ".", "p", "n", "g", "}", "\\", "e", "n", "d", "{", "f", "i", "g", "u", "r", "e", "}", "\\", "i", "n", "c", "l", "u", "d", "e", "g", "r", "a", "p", "h", "i", "c", "s", "{", "c", "/", "d", ".", "p", "n", "g", "}">>,
   <<"\\", "r", "e", "f", "{", "k", "}", " ", "\\", "e", "q", "r", "e", "f", "{", "e", "}", " ", "\\", "l", "a", "b", "e", "l", "{", "l", "}", "\\", "f", "o", "o", "t", "n", "o", "t", "e", "{", "n", "}", "\\", "c", "i", "t", "e", "{", "a", "}", "\\", "c", "i", "t", "e", "p", "{", "b", "}", "\\", "c", "i", "t", "e", "t", "{", "c", "}">>,
   <<"\\", "d", "o", "c", "u", "m", "e", "n", "t", "c", "l", "a", "s", "s", "[", "1", "2", "p", "t", "]", "{", "a", "r", "t", "i", "c", "l", "e", "}", "\\", "u", "s", "e", "p", "a", "c", "k", "a", "g", "e", "[", "u", "t", "f", "8", "]", "{", "i", "n", "p", "u", "t", "e", "n", "c", "}", "\\", "u", "s", "e", "p", "a", "c", "k", "a", "g", "e", "{", "a", "m", "s", "m", "a", "t", "h", "}", "\\", "g", "e", "o", "m", "e", "t", "r", "y", "{", "a", "4", "}">>,
   <<"\\", "p", "a", "g", "e", "s", "t", "y", "l", "e", "{", "e", "m", "p", "t", "y", "}", "\\", "s", "e", "t", "c", "o", "u", "n", "t", "e", "r", "{", "a", "}", "{", "1", "}", "\\", "r", "e", "n", "e", "w", "c", "o", "m", "m", "a", "n", "d", "{", "\\", "x", "}", "{", "y", "}", "\\", "b", "e", "g", "i", "n", "{", "a", "b", "s", "t", "r", "a", "c", "t", "}", "a", "b", "s", "\\", "e", "n", "d", "{", "a", "b", "s", "t", "r", "a", "c", "t", "}">>,
   <<"\\", "b", "e", "g", "i", "n", "{", "t", "a", "b", "l", "e", "}", "x", "\\", "e", "n", "d", "{", "t", "a", "b", "l", "e", "}", "\\", "b", "e", "g", "i", "n", "{", "t", "a", "b", "u", "l", "a", "r", "}", "{", "c", "c", "}", "a", "&", "b", "\\", "e", "n", "d", "{", "t", "a", "b", "u", "l", "a", "r", "}">>,
   <<"&grave;", "&grave;", "q", "'", "'", " ", "a", "-", "-", "-", "b", "-", "-", "c", " ", "\\", "t", "e", "x", "t", "i", "t", "{", "i", "}", "\\", "t", "e", "x", "t", "t", "t", "{", "t", "}", "\\", "t", "e", "x", "t", "s", "l", "{", "s", "}", "\\", "t", "e", "x", "t", "s", "c", "{", "c", "}", "\\", "t", "e", "x", "t", "r", "m", "{", "r", "}", "\\", "t", "e", "x", "t", "s", "f", "{", "f", "}", "\\", "e", "m", "p", "h", "{", "e", "}", "\\", "t", "e", "x", "t", "u", "p", "{", "u", "}">>,
   <<"a", "\\", "\\", "b", "\\", "n", "e", "w", "l", "i", "n", "e", " ", "c", " ", "\\", "s", "u", "b", "s", "e", "c", "t", "i", "o", "n", "*", "{", "S", "}">>}

\* A figure environment, starred or not, holding content and then a caption
\* or none.
FigureContents == {<<"i", "n", "n", "e", "r">>, <<"\\", "i", "n", "c", "l", "u", "d", "e", "g", "r", "a", "p", "h", "i", "c", "s", "{", "a", "/", "b", ".", "p", "n", "g", "}">>, <<"\\", "i", "n", "c", "l", "u", "d", "e", "g", "r", "a", "p", "h", "i", "c", "s", "[", "w", "]", "{", "a", "/", "b", ".", "p", "n", "g", "}">>}

FigureSource(star, caption, content) ==
  <<"\\", "b", "e", "g", "i", "n", "{", "f", "i", "g", "u", "r", "e">> \o star \o <<"}">> \o content
  \o (IF caption THEN <<"\\", "c", "a", "p", "t", "i", "o", "n", "{", "C", "a", "p", "}">> ELSE <<>>) \o <<"\\", "e", "n", "d", "{", "f", "i", "g", "u", "r", "e">> \o star \o <<"}">>

\* What follows the figure: nothing, or an image inclusion outside of it,
\* with the final segment of its path.
FigureTails ==
  {<<<<>>, <<>>>>,
   <<<<" ", "\\", "i", "n", "c", "l", "u", "d", "e", "g", "r", "a", "p", "h", "i", "c", "s", "{", "e", ".", "p", "n", "g", "}">>, <<"e", ".", "p", "n", "g">>>>,
   <<<<" ", "\\", "i", "n", "c", "l", "u", "d", "e", "g", "r", "a", "p", "h", "i", "c", "s", "[", "w", "]", "{", "c", "/", "d", ".", "p", "n", "g", "}">>, <<"d", ".", "p", "n", "g">>>>}

FigureDocuments ==
  {FigureSource(star, caption, content) \o tail[1] :
     star \in {<<>>, <<"*">>}, caption \in BOOLEAN, content \in FigureContents,
     tail \in FigureTails}

\* The directives of the preamble, one of each form.
PreambleDirectives ==
  {<<"\\", "d", "o", "c", "u", "m", "e", "n", "t", "c", "l", "a", "s", "s", "{", "a", "r", "t", "i", "c", "l", "e", "}">>, <<"\\", "d", "o", "c", "u", "m", "e", "n", "t", "c", "l", "a", "s", "s", "[", "1", "2", "p", "t", "]", "{", "a", "r", "t", "i", "c", "l", "e", "}">>,
   <<"\\", "u", "s", "e", "p", "a", "c", "k", "a", "g", "e", "{", "a", "m", "s", "m", "a", "t", "h", "}">>, <<"\\", "u", "s", "e", "p", "a", "c", "k", "a", "g", "e", "[", "u", "t", "f", "8", "]", "{", "i", "n", "p", "u", "t", "e", "n", "c", "}">>,
   <<"\\", "g", "e", "o", "m", "e", "t", "r", "y", "{", "a", "4", "}">>, <<"\\", "p", "a", "g", "e", "s", "t", "y", "l", "e", "{", "e", "m", "p", "t", "y", "}">>, <<"\\", "s", "e", "t", "c", "o", "u", "n", "t", "e", "r", "{", "p", "a", "g", "e", "}", "{", "1", "}">>,
   <<"\\", "r", "e", "n", "e", "w", "c", "o", "m", "m", "a", "n", "d", "{", "\\", "x", "}", "{", "y", "}">>, <<"\\", "b", "e", "g", "i", "n", "{", "d", "o", "c", "u", "m", "e", "n", "t", "}">>, <<"\\", "e", "n", "d", "{", "d", "o", "c", "u", "m", "e", "n", "t", "}">>,
   <<"\\", "b", "e", "g", "i", "n", "{", "a", "b", "s", "t", "r", "a", "c", "t", "}", "a", "b", "s", "\\", "e", "n", "d", "{", "a", "b", "s", "t", "r", "a", "c", "t", "}">>, <<"\\", "m", "a", "k", "e", "t", "i", "t", "l", "e">>}

\* The text before and the text after a directive.
PreambleBefore == {<<>>, <<"I", "n", "t", "r", "o", " ">>}
PreambleAfter == {<<>>, <<" ", "B", "o", "d", "y">>}

PreambleDocuments ==
  {before \o d \o after :
     before \in PreambleBefore, d \in PreambleDirectives, after \in PreambleAfter}

Documents ==
  Composed(MaxPieces) \cup ListDocuments \cup {SectionSource(c) : c \in SectionCommands}
  \cup Examples \cup FigureDocuments \cup PreambleDocuments

---------------------------------------------------------------------------
(* The conversion, block by block.                                         *)

\* Line 39: let html = texContent, on any document.
Init ==
  /\ texContent \in Documents
  /\ html = texContent
  /\ mathBlocks = <<>>
  /\ mathCounter = 0
  /\ titleHtml = <<>>
  /\ paragraphs = <<>>
  /\ result = <<>>
  /\ returned = <<>>
  /\ pc = "math"
  /\ mathElements = <<>>
  /\ visited = <<>>

\* Lines 41-91
DoProtectMath ==
  /\ pc = "math"
  /\ LET st == ProtectMath(html) IN
       /\ html' = st.html
       /\ mathBlocks' = st.mathBlocks
       /\ mathCounter' = st.mathCounter
  /\ pc' = "preamble"
  /\ UNCHANGED <<texContent, titleHtml, paragraphs, result, returned>>
  /\ UNCHANGED <<mathElements, visited>>

\* Lines 93-107
DoStripPreamble ==
  /\ pc = "preamble"
  /\ html' = StripPreamble(html)
  /\ pc' = "frontmatter"
  /\ UNCHANGED <<texContent, mathBlocks, mathCounter, titleHtml, paragraphs, result, returned>>
  /\ UNCHANGED <<mathElements, visited>>

\* Lines 109-127
DoFrontMatter ==
  /\ pc = "frontmatter"
  /\ titleHtml' = TitleBlock(html)
  /\ html' = RemoveFrontMatter(html)
  /\ pc' = "format"
  /\ UNCHANGED <<texContent, mathBlocks, mathCounter, paragraphs, result, returned>>
  /\ UNCHANGED <<mathElements, visited>>

\* Lines 129-144
DoFormat ==
  /\ pc = "format"
  /\ html' = TexOrPdfString(TextFormatting(Sections(html)))
  /\ pc' = "frontmatter2"
  /\ UNCHANGED <<texContent, mathBlocks, mathCounter, titleHtml, paragraphs, result, returned>>
  /\ UNCHANGED <<mathElements, visited>>

\* Lines 146-164: titleMatch, authorMatch, dateMatch and titleHtml are
\* declared and computed a second time, on the text as it is now.  A
\* block-scoped redeclaration does not load as ES2015; the function runs
\* only in an ES5 emit, where the declarations are var: the second block
\* runs after the first and titleHtml starts again from the empty string.
DoFrontMatterAgain ==
  /\ pc = "frontmatter2"
  /\ titleHtml' = TitleBlock(html)
  /\ html' = RemoveFrontMatter(html)
  /\ pc' = "legacymath"
  /\ UNCHANGED <<texContent, mathBlocks, mathCounter, paragraphs, result, returned>>
  /\ UNCHANGED <<mathElements, visited>>

\* Lines 166-181
DoLegacyMath ==
  /\ pc = "legacymath"
  /\ html' = LegacyMath(LineBreaks(html))
  /\ pc' = "format2"
  /\ UNCHANGED <<texContent, mathBlocks, mathCounter, titleHtml, paragraphs, result, returned>>
  /\ UNCHANGED <<mathElements, visited>>

\* Lines 183-199
DoFormatAgain ==
  /\ pc = "format2"
  /\ html' = TexOrPdfString(TextUp(TextFormatting(Sections(html))))
  /\ pc' = "lists"
  /\ UNCHANGED <<texContent, mathBlocks, mathCounter, titleHtml, paragraphs, result, returned>>
  /\ UNCHANGED <<mathElements, visited>>

\* Lines 201-227
DoLists ==
  /\ pc = "lists"
  /\ html' = Lists(html)
  /\ pc' = "refs"
  /\ UNCHANGED <<texContent, mathBlocks, mathCounter, titleHtml, paragraphs, result, returned>>
  /\ UNCHANGED <<mathElements, visited>>

\* Lines 229-236
DoNotesAndRefs ==
  /\ pc = "refs"
  /\ html' = NotesAndRefs(html)
  /\ pc' = "figures"
  /\ UNCHANGED <<texContent, mathBlocks, mathCounter, titleHtml, paragraphs, result, returned>>
  /\ UNCHANGED <<mathElements, visited>>

\* Lines 238-244
DoFigures ==
  /\ pc = "figures"
  /\ html' = Figures(html)
  /\ pc' = "verbatim"
  /\ UNCHANGED <<texContent, mathBlocks, mathCounter, titleHtml, paragraphs, result, returned>>
  /\ UNCHANGED <<mathElements, visited>>

\* Lines 246-249
DoVerbatim ==
  /\ pc = "verbatim"
  /\ html' = Verbatim(html)
  /\ pc' = "escapes"
  /\ UNCHANGED <<texContent, mathBlocks, mathCounter, titleHtml, paragraphs, result, returned>>
  /\ UNCHANGED <<mathElements, visited>>

\* Lines 251-265
DoEscapes ==
  /\ pc = "escapes"
  /\ html' = Escapes(LineBreaks(html))
  /\ pc' = "fallback"
  /\ UNCHANGED <<texContent, mathBlocks, mathCounter, titleHtml, paragraphs, result, returned>>
  /\ UNCHANGED <<mathElements, visited>>

\* Lines 267-273
DoFallback ==
  /\ pc = "fallback"
  /\ html' = FallbackSanitize(html)
  /\ pc' = "paragraphs"
  /\ UNCHANGED <<texContent, mathBlocks, mathCounter, titleHtml, paragraphs, result, returned>>
  /\ UNCHANGED <<mathElements, visited>>

\* Lines 275-295
DoParagraphs ==
  /\ pc = "paragraphs"
  /\ paragraphs' = Paragraphize(html)
  /\ pc' = "restore"
  /\ UNCHANGED <<texContent, html, mathBlocks, mathCounter, titleHtml, result, returned>>
  /\ UNCHANGED <<mathElements, visited>>

\* Lines 297-303
DoRestore ==
  /\ pc = "restore"
  /\ result' = RestoreMath(paragraphs, mathBlocks, 1)
  /\ returned' = titleHtml \o RestoreMath(paragraphs, mathBlocks, 1)
  /\ pc' = "done"
  /\ UNCHANGED <<texContent, html, mathBlocks, mathCounter, titleHtml, paragraphs>>
  /\ UNCHANGED <<mathElements, visited>>

Next ==
  \/ DoProtectMath
  \/ DoStripPreamble
  \/ DoFrontMatter
  \/ DoFormat
  \/ DoFrontMatterAgain
  \/ DoLegacyMath
  \/ DoFormatAgain
  \/ DoLists
  \/ DoNotesAndRefs
  \/ DoFigures
  \/ DoVerbatim
  \/ DoEscapes
  \/ DoFallback
  \/ DoParagraphs
  \/ DoRestore

Spec == Init /\ [][Next]_vars

---------------------------------------------------------------------------
(* The special text replacements of lines 256-265 applied alone, twice.    *)

\* The characters the replacements read, and a letter.
EscAlphabet == {"\\", "$", "%", "{", "}", "_", "-", "&grave;", "'", "a"}

\* The strings of exactly n characters of EscAlphabet.
RECURSIVE EscStringsOf(_)
EscStringsOf(n) ==
  IF n = 0 THEN {<<>>}
  ELSE {Append(s, c) : s \in EscStringsOf(n - 1), c \in EscAlphabet}

EscStrings ==
  UNION {EscStringsOf(n) : n \in 0..MaxEscLen}
  \cup {<<"\\", "t", "e", "x", "t", "b", "a", "c", "k", "s", "l", "a", "s", "h">>, <<"a", "\\", "t", "e", "x", "t", "b", "a", "c", "k", "s", "l", "a", "s", "h", " ", "b">>, <<"\\", "t", "e", "x", "t", "b", "a", "c", "k", "s", "l", "a", "s", "h", "%">>,
        <<"\\", "t", "e", "x", "t", "b", "a", "c", "k", "s", "l", "a", "s", "h", "t", "e", "x", "t", "b", "a", "c", "k", "s", "l", "a", "s", "h">>}

EscInit ==
  /\ texContent \in EscStrings
  /\ html = texContent
  /\ mathBlocks = <<>>
  /\ mathCounter = 0
  /\ titleHtml = <<>>
  /\ paragraphs = <<>>
  /\ result = <<>>
  /\ returned = <<>>
  /\ pc = "raw"
  /\ mathElements = <<>>
  /\ visited = <<>>

\* Lines 256-265, on the source text.
EscFirst ==
  /\ pc = "raw"
  /\ html' = Escapes(html)
  /\ pc' = "once"
  /\ UNCHANGED <<texContent, mathBlocks, mathCounter, titleHtml, paragraphs, result,
                 returned>>
  /\ UNCHANGED <<mathElements, visited>>

\* Lines 256-265, on their own output; result holds the second output.
EscSecond ==
  /\ pc = "once"
  /\ result' = Escapes(html)
  /\ pc' = "twice"
  /\ UNCHANGED <<texContent, html, mathBlocks, mathCounter, titleHtml, paragraphs,
                 returned>>
  /\ UNCHANGED <<mathElements, visited>>

EscNext == EscFirst \/ EscSecond

EscSpec == EscInit /\ [][EscNext]_vars

---------------------------------------------------------------------------
(* The effect of LaTeXDocument (lines 12-33): the content is converted,    *)
(* the returned markup becomes the tree of the container, and every        *)
(* element with a data-math attribute is handed to the math engine.  The   *)
(* engine is not part of the repository: a call of katex.render either     *)
(* returns, having typeset the element, or throws.  The container is       *)
(* attached when an effect runs, so the return of line 13 is not taken.    *)

\* The most pieces a document of the effect is made of.
MaxMath == 3

\* The pieces of the documents of the effect: the forms of math, and text.
RenderPieces == <<<<"$", "a", "$">>, <<"\\", "[", "b", "\\", "]">>, <<"$", "$", "c", "$", "$">>, <<" ", "a", "n", "d", " ">>>>

RECURSIVE RenderComposed(_)
RenderComposed(n) ==
  IF n = 0 THEN {<<>>}
  ELSE LET shorter == RenderComposed(n - 1) IN
       shorter \cup {d \o RenderPieces[k] : d \in shorter, k \in 1..Len(RenderPieces)}

RenderDocuments == RenderComposed(MaxMath)

\* What an element shows: nothing yet, the engine's typesetting of an
\* expression in a display mode, or a text.
Empty == [kind |-> "empty"]
Typeset(tex, displayMode) == [kind |-> "typeset", tex |-> tex, displayMode |-> displayMode]
RawText(tex) == [kind |-> "text", tex |-> tex]

\* An element with a data-math attribute opens at index i of the markup:
\* the attribute value ends at the next quotation mark.
MMathElement(s, i) ==
  IF /\ i + 2 <= Len(s)
     /\ s[i] = "<"
     /\ s[i + 1] \in {<<"<", "div class=\"my-6 overflow-x-auto\" data-math=">>[2],
                      <<"<", "span data-math=">>[2]}
     /\ s[i + 2] = "\""
  THEN LET q == FindChar(s, i + 3, "\"") IN
       IF q = 0 THEN NoMatch ELSE <<q + 1, i + 3, q - 1>>
  ELSE NoMatch

\* Line 19, with lines 21-22: the elements with a data-math attribute in
\* document order, each with its expression and whether its data-display
\* attribute is 'true'.
RECURSIVE QuerySelectorAll(_, _)
QuerySelectorAll(s, i) ==
  LET j == NextMatch(MMathElement, s, i) IN
  IF j = 0 THEN <<>>
  ELSE LET m == MMathElement(s, j) IN
       <<[tex       |-> Group1(s, m),
          isDisplay |-> m[1] <= Len(s) /\ s[m[1]] = <<" data-display=\"true\">">>[1],
          shows     |-> Empty,
          threw     |-> FALSE]>>
       \o QuerySelectorAll(s, m[1])

RenderInit ==
  /\ texContent \in RenderDocuments
  /\ html = texContent
  /\ mathBlocks = <<>>
  /\ mathCounter = 0
  /\ titleHtml = <<>>
  /\ paragraphs = <<>>
  /\ result = <<>>
  /\ returned = <<>>
  /\ pc = "math"
  /\ mathElements = <<>>
  /\ visited = <<>>

\* Lines 15-19: the returned markup is the tree, and its math elements are
\* collected.
EffectQuery ==
  /\ pc = "done"
  /\ mathElements' = QuerySelectorAll(returned, 1)
  /\ visited' = <<>>
  /\ pc' = "forEach"
  /\ UNCHANGED <<texContent, html, mathBlocks, mathCounter, titleHtml, paragraphs, result,
                 returned>>

\* Lines 20-27 for the next element: katex.render throws and nothing
\* catches it, so the callback, forEach and the effect are left.
EffectRethrow ==
  /\ pc = "forEach"
  /\ Len(visited) < Len(mathElements)
  /\ mathElements' = [mathElements EXCEPT ![Len(visited) + 1].threw = TRUE]
  /\ visited' = Append(visited, Len(visited) + 1)
  /\ pc' = "thrown"
  /\ UNCHANGED <<texContent, html, mathBlocks, mathCounter, titleHtml, paragraphs, result,
                 returned>>

\* Lines 20-27 for the next element: katex.render returns.
EffectRender ==
  /\ pc = "forEach"
  /\ Len(visited) < Len(mathElements)
  /\ LET k == Len(visited) + 1 IN
       /\ mathElements' =
            [mathElements EXCEPT
               ![k].shows = Typeset(mathElements[k].tex, mathElements[k].isDisplay)]
       /\ visited' = Append(visited, k)
  /\ UNCHANGED <<texContent, html, mathBlocks, mathCounter, titleHtml, paragraphs, result,
                 returned, pc>>

\* Lines 20-31 for the next element: katex.render throws, the catch block
\* logs the error and sets the text of the element to the expression.
EffectCatch ==
  /\ pc = "forEach"
  /\ Len(visited) < Len(mathElements)
  /\ LET k == Len(visited) + 1 IN
       /\ mathElements' =
            [mathElements EXCEPT ![k].shows = RawText(mathElements[k].tex),
                                 ![k].threw = TRUE]
       /\ visited' = Append(visited, k)
  /\ UNCHANGED <<texContent, html, mathBlocks, mathCounter, titleHtml, paragraphs, result,
                 returned, pc>>

\* Line 32: forEach has handled the last element.
EffectDone ==
  /\ pc = "forEach"
  /\ Len(visited) = Len(mathElements)
  /\ pc' = "rendered"
  /\ UNCHANGED <<texContent, html, mathBlocks, mathCounter, titleHtml, paragraphs, result,
                 returned, mathElements, visited>>

RenderNext ==
  \/ Next
  \/ EffectQuery
  \/ EffectRender
  \/ EffectCatch
  \/ EffectDone

RenderSpec == RenderInit /\ [][RenderNext]_vars

---------------------------------------------------------------------------
(* The properties.                                                         *)

\* The tags of a body paragraph (line 292) and of a verbatim block (line 248).
ParagraphOpen == <<"<", "p class=\"mb-4 leading-relaxed text-gray-200\">">>
ParagraphClose == <<"<", "/p>">>
PreOpen == <<"<", "pre class=\"bg-cosmic-800 p-4 rounded overflow-x-auto text-sm my-4\">", "<", "code>">>
PreClose == <<"<", "/code>", "<", "/pre>">>

\* The text s starts with the text p.
IsPrefix(p, s) == MatchAt(s, 1, p)

\* The placeholder-token pattern occurs in s.
HasTokenPattern(s) == Contains(s, <<"_", "_", "M", "A", "T", "H", "_">>)

\* C1 (math round-trip): when the conversion returns, every container that
\* math extraction recorded for a math span (the raw expression trimmed, the
\* display flag of its form) and that holds no placeholder-token pattern
\* stands in the returned output exactly as recorded.
C1_MathRoundTrip ==
  pc = "done" =>
    \A k \in 1..Len(mathBlocks) :
      ~HasTokenPattern(mathBlocks[k].value) => Contains(returned, mathBlocks[k].value)

\* C2 (no placeholder survives): the returned output, header block and
\* body, contains none of the placeholder tokens of this conversion.
C2_NoPlaceholderSurvives ==
  pc = "done" => \A k \in 1..Len(mathBlocks) : ~Contains(returned, mathBlocks[k].key)

\* A backslash followed by a letter stands in s.
HasCommandToken(s) ==
  \E i \in 1..(Len(s) - 1) : s[i] = "\\" /\ s[i + 1] \in Letters

\* C3 (non-leakage): the output without the restored math containers, that
\* is the header block and the paragraphs that still hold the placeholders,
\* contains no backslash followed by a letter.
C3_NoCommandLeaks ==
  pc = "done" => ~HasCommandToken(titleHtml \o paragraphs)

\* The block-level elements the converter emits: headings, lists, the
\* display-math container, figures and verbatim blocks.
BlockElements ==
  BlockOpenings \ {<<"<", "img src=\"/assets/">>[2], <<"<", "br />">>[2]}

\* Index j of s lies inside a body paragraph.
InsideParagraph(s, j) ==
  \E i \in 1..(j - 1) :
    MatchAt(s, i, ParagraphOpen) /\ FindAlt(s, i, <<ParagraphClose>>) > j

\* C4 (paragraph invariant): in the returned output no body paragraph is
\* empty and no block-level element opens inside a body paragraph.
C4_ParagraphInvariant ==
  pc = "done" =>
    /\ ~Contains(returned, ParagraphOpen \o ParagraphClose)
    /\ \A j \in 1..(Len(returned) - 1) :
         (returned[j] = "<" /\ returned[j + 1] \in BlockElements)
           => ~InsideParagraph(returned, j)

\* C5 (idempotence of escape normalization): the special text replacements
\* applied to their own output leave it as it is, E(E(s)) = E(s).
C5_EscapeIdempotent ==
  pc = "twice" => result = html

\* The list the items bodies make: one item each, in order, with the
\* function's own markup of an item.
ExpectedList(env, bodies) ==
  (IF env = <<"e", "n", "u", "m", "e", "r", "a", "t", "e">> THEN <<"<", "ol class=\"my-4\">">> ELSE <<"<", "ul class=\"my-4\">">>)
  \o ListItems([k \in 1..Len(bodies) |-> <<"\\", "i", "t", "e", "m", " ">> \o bodies[k]], env = <<"e", "n", "u", "m", "e", "r", "a", "t", "e">>, 0)
  \o (IF env = <<"e", "n", "u", "m", "e", "r", "a", "t", "e">> THEN <<"<", "/ol>">> ELSE <<"<", "/ul>">>)

\* C6 (list segmentation): an itemize or enumerate environment of n items,
\* written on one line or one item a line, becomes the list of exactly
\* these n items in source order.
C6_ListSegmentation ==
  pc = "done" =>
    \A env \in {<<"i", "t", "e", "m", "i", "z", "e">>, <<"e", "n", "u", "m", "e", "r", "a", "t", "e">>}, bodies \in ItemLists, lines \in BOOLEAN :
      texContent = ListSource(env, bodies, lines)
        => Contains(returned, ExpectedList(env, bodies))

\* C7 (heading followed by text): a sectioning command followed in the same
\* segment by "Hello $x^2$ world." becomes the heading followed by a
\* paragraph holding "Hello ", the inline container of x^2 and " world.".
C7_HeadingThenParagraph ==
  pc = "done" =>
    \A cmd \in SectionCommands :
      texContent = SectionSource(cmd) =>
        LET heading == Sections(<<"\\">> \o cmd \o <<"{", "I", "n", "t", "r", "o", "}">>)
            para    == ParagraphOpen \o <<"H", "e", "l", "l", "o", " ">> \o MathContainer(FALSE, <<"x", "^", "2">>)
                       \o <<" ", "w", "o", "r", "l", "d", ".">> \o ParagraphClose
        IN  returned \in {heading \o para, heading \o <<" ">> \o para}

\* The first verbatim block of the source: its match, <<end, lo, hi>>.
VerbatimBlock(tex) ==
  FirstMatch(LAMBDA s, i : MDelim(s, i, <<<<"\\", "b", "e", "g", "i", "n", "{", "v", "e", "r", "b", "a", "t", "i", "m", "}">>>>, <<<<"\\", "e", "n", "d", "{", "v", "e", "r", "b", "a", "t", "i", "m", "}">>>>),
             tex, 1)

\* C8 (verbatim pass-through): the returned output holds a preformatted
\* code block whose text is the content of the first verbatim block of the
\* source, trimmed and otherwise unchanged.
C8_VerbatimPassThrough ==
  pc = "done" =>
    (VerbatimBlock(texContent) # NoMatch =>
       Contains(returned,
                PreOpen \o Trim(Group1(texContent, VerbatimBlock(texContent))) \o PreClose))

\* The front-matter directives.
Directives == <<<<"\\", "t", "i", "t", "l", "e", "{">>, <<"\\", "a", "u", "t", "h", "o", "r", "{">>, <<"\\", "d", "a", "t", "e", "{">>>>

\* C9 (front-matter first-match-wins): when the first \title, \author and
\* \date arguments of the source are plain text, the returned output starts
\* with the header lines of these first arguments, and no directive is left
\* in what is returned.
C9_FrontMatterFirstWins ==
  pc = "done" =>
    LET header == TitleBlock(texContent) IN
    (~Contains(header, <<"$">>) /\ ~Contains(header, <<"\\">>)) =>
       /\ IsPrefix(header, returned)
       /\ FindAlt(returned, 1, Directives) = 0

\* The escaped symbols of lines 256-261 and the character each stands for.
EscapedSymbols == <<<<"\\", "t", "e", "x", "t", "b", "a", "c", "k", "s", "l", "a", "s", "h">>, <<"\\", "$">>, <<"\\", "%">>, <<"\\", "{">>, <<"\\", "}">>, <<"\\", "_">>>>

MEscaped(s, i) ==
  LET n == PrefixLen(s, i, EscapedSymbols) IN
  IF n > 0 THEN <<i + n, i, i + n - 1>> ELSE NoMatch

Literals(s) ==
  ReplaceAll(MEscaped,
             LAMBDA t, i, m : IF m[1] - i > 2 THEN <<"\\">> ELSE <<t[i + 1]>>, s)

\* Text made of letters, digits, single spaces and escaped symbols only,
\* with no space at either end.
PlainCharacters ==
  Letters \cup {"0", "1", "2", "3", "4", "5", "6", "7", "8", "9", " "}

IsEscapedText(s) ==
  /\ s # <<>>
  /\ s[1] # " " /\ s[Len(s)] # " "
  /\ ~Contains(s, <<" ", " ">>)
  /\ \A k \in 1..Len(Remove(MEscaped, s)) : Remove(MEscaped, s)[k] \in PlainCharacters

\* C10 (escaped symbols become literals): a source of plain text and
\* escaped symbols becomes one paragraph holding the text with every escaped
\* symbol replaced by its literal character.
C10_EscapedSymbolsLiteral ==
  pc = "done" =>
    (IsEscapedText(texContent) =>
       returned = ParagraphOpen \o Literals(texContent) \o ParagraphClose)

\* The markup of a kept caption (line 240) and of an image whose file is
\* name (line 243).
FigureOf(caption) ==
  <<"<", "figure class=\"my-8\">", "<", "figcaption class=\"text-sm text-gray-400 italic mt-2\">">>
  \o caption \o <<"<", "/figcaption>", "<", "/figure>">>

ImageOf(name) ==
  <<"<", "img src=\"/assets/">> \o name \o <<"\"">>
  \o <<" alt=\"figure\" class=\"max-w-full h-auto rounded-lg my-4\" loading=\"lazy\" />">>

\* C12 (figure blocks keep only the caption): of a figure environment, with
\* or without a caption, nothing but the caption reaches the returned
\* output, neither its text nor an image for a nested image inclusion, and
\* an image inclusion after the figure becomes the image of the final
\* segment of its path.
C12_FigureKeepsCaptionOnly ==
  pc = "done" =>
    \A star \in {<<>>, <<"*">>}, caption \in BOOLEAN, content \in FigureContents,
       tail \in FigureTails :
      texContent = FigureSource(star, caption, content) \o tail[1] =>
        /\ ~Contains(returned, <<"i", "n", "n", "e", "r">>)
        /\ ~Contains(returned, <<"b", ".", "p", "n", "g">>)
        /\ caption => Contains(returned, FigureOf(<<"C", "a", "p">>))
        /\ tail[2] # <<>> => Contains(returned, ImageOf(tail[2]))

\* C13 (preamble directives are removed without residue): a preamble
\* directive between two texts leaves only the two texts, as one paragraph,
\* or nothing when both are empty.
C13_PreambleRemoved ==
  pc = "done" =>
    \A before \in PreambleBefore, d \in PreambleDirectives, after \in PreambleAfter :
      texContent = before \o d \o after =>
        returned = (IF before \o after = <<>> THEN <<>>
                    ELSE ParagraphOpen \o Trim(before \o after) \o ParagraphClose)

\* C11 (per-container failure isolation): the pass never ends with an
\* exception; while it runs and when it is over, the elements handled are
\* the first elements of the tree, each once and in document order, all of
\* them when it is over; each handled element shows the engine's
\* typesetting of its own expression in its own display mode or, when the
\* engine threw on it, its own expression as text, whatever happened to the
\* other elements, and the elements not yet handled are untouched.
C11_RenderIsolation ==
  /\ pc # "thrown"
  /\ pc \in {"forEach", "rendered"} =>
       LET found == QuerySelectorAll(returned, 1) IN
       /\ Len(mathElements) = Len(found)
       /\ visited = [k \in 1..Len(visited) |-> k]
       /\ Len(visited) <= Len(found)
       /\ pc = "rendered" => Len(visited) = Len(found)
       /\ \A k \in 1..Len(found) :
            /\ mathElements[k].tex = found[k].tex
            /\ mathElements[k].isDisplay = found[k].isDisplay
            /\ mathElements[k].shows =
                 IF k > Len(visited) THEN Empty
                 ELSE IF mathElements[k].threw THEN RawText(found[k].tex)
                 ELSE Typeset(found[k].tex, found[k].isDisplay)

\* The pass is over on a tree of three elements: the engine threw on the
\* first and on the third, and typeset the second.
C11_Witness ==
  /\ pc = "rendered"
  /\ Len(mathElements) = 3
  /\ mathElements[1].shows = RawText(mathElements[1].tex)
  /\ mathElements[2].shows = Typeset(mathElements[2].tex, mathElements[2].isDisplay)
  /\ mathElements[3].threw
  /\ visited = <<1, 2, 3>>

=============================================================================
